---- MODULE Spec2Model ----
(***************************************************************************)
(* A model of tiny-wasmtime: the binary decoder (src/binary/module.rs),    *)
(* store construction (src/execution/store.rs) and the stack interpreter   *)
(* (src/execution/runtime.rs, src/execution/value.rs).                     *)
(*                                                                         *)
(* Representation.                                                         *)
(*  - A byte is a number 0..255; a byte slice is a sequence of bytes.       *)
(*  - A u32 read from the input (count, size, index, version) is a number.  *)
(*  - An i32 / i64 is its two's complement bit pattern cut into 16-bit      *)
(*    limbs, least significant first: 2 limbs for i32, 4 for i64.  The      *)
(*    operators I32(n) and I64(n) build the pattern of a small number n.    *)
(*  - A nom IResult is [k |-> "Ok", rest, val] or [k |-> "Err"]; a Rust      *)
(*    panic (expect, todo!, unimplemented!, panic!) is [k |-> "Panic"].      *)
(***************************************************************************)
EXTENDS Integers, Sequences, FiniteSets, TLC

\* ------------------------------------------------------------------------
\* Fixed-width integers (Value::I32(i32), Value::I64(i64))
\* ------------------------------------------------------------------------

LimbBase == 65536
LimbSign == 32768
Int31 == 2147483647

\* The k-limb two's complement pattern of n (n within TLC's 32-bit integers).
ToLimbs(n, k) ==
    LET m == IF n >= 0 THEN n ELSE (n + Int31) + 1
        lo == m % LimbBase
        hi == (m \div LimbBase) + (IF n >= 0 THEN 0 ELSE LimbSign)
        fill == IF n >= 0 THEN 0 ELSE LimbBase - 1
    IN  [i \in 1..k |-> IF i = 1 THEN lo ELSE IF i = 2 THEN hi ELSE fill]

IsNegative(limbs) == limbs[Len(limbs)] >= LimbSign

\* carry into limb i of a + b
RECURSIVE CarryInto(_, _, _)
CarryInto(a, b, i) ==
    IF i = 1 THEN 0
    ELSE (a[i - 1] + b[i - 1] + CarryInto(a, b, i - 1)) \div LimbBase

\* a + b modulo 2^(16 * Len(a)): wrapping addition at the operands' width
WrappingAddMutNoCarry(a, b) ==
    [i \in 1..Len(a) |-> (a[i] + b[i]) % LimbBase]

WrappingAdd(a, b) ==
    [i \in 1..Len(a) |-> (a[i] + b[i] + CarryInto(a, b, i)) % LimbBase]

\* signed overflow of a + b: operands of one sign, sum of the other
AddOverflows(a, b) ==
    /\ IsNegative(a) = IsNegative(b)
    /\ IsNegative(WrappingAdd(a, b)) # IsNegative(a)

I32(n) == [t |-> "I32", v |-> ToLimbs(n, 2)]
I64(n) == [t |-> "I64", v |-> ToLimbs(n, 4)]

\* impl Add for Value: the outcomes of lhs + rhs.  Operands of different
\* variants panic ("Type mismatch").  `left + right` on i32 / i64 panics on
\* overflow in a build with overflow checks (debug) and wraps in one without
\* (release): both outcomes are possible.
ValueAddMutWiden(lhs, rhs) ==
    IF lhs.t = rhs.t
    THEN {[k |-> "Val", val |-> [t |-> lhs.t, v |-> WrappingAdd(lhs.v, rhs.v)]]}
    ELSE LET w == ToLimbs(0, 4)
             l == [i \in 1..4 |-> IF i <= Len(lhs.v) THEN lhs.v[i] ELSE 0]
             r == [i \in 1..4 |-> IF i <= Len(rhs.v) THEN rhs.v[i] ELSE 0]
         IN  {[k |-> "Val", val |-> [t |-> "I64", v |-> WrappingAdd(WrappingAdd(l, r), w)]]}

ValueAdd(lhs, rhs) ==
    IF lhs.t # rhs.t
    THEN {[k |-> "Panic"]}
    ELSE IF AddOverflows(lhs.v, rhs.v)
    THEN {[k |-> "Panic"],
          [k |-> "Val", val |-> [t |-> lhs.t, v |-> WrappingAdd(lhs.v, rhs.v)]]}
    ELSE {[k |-> "Val", val |-> [t |-> lhs.t, v |-> WrappingAdd(lhs.v, rhs.v)]]}

\* ------------------------------------------------------------------------
\* Primitive readers (nom, nom_leb128)
\* ------------------------------------------------------------------------

Err == [k |-> "Err"]
Panic == [k |-> "Panic"]
Ok(rest, val) == [k |-> "Ok", rest |-> rest, val |-> val]

Drop(s, n) == SubSeq(s, n + 1, Len(s))
Take(s, n) == SubSeq(s, 1, n)

RECURSIVE Pow128(_)
Pow128(i) == IF i = 0 THEN 1 ELSE 128 * Pow128(i - 1)

\* nom::bytes::complete::take(n)
takeMutClamp(n, input) ==
    IF n > Len(input) THEN Ok(<<>>, input) ELSE Ok(Drop(input, n), Take(input, n))

take(n, input) ==
    IF n > Len(input) THEN Err ELSE Ok(Drop(input, n), Take(input, n))

\* nom::number::complete::le_u8
le_u8(input) ==
    IF Len(input) < 1 THEN Err ELSE Ok(Drop(input, 1), input[1])

\* nom::number::complete::le_u32
le_u32(input) ==
    IF Len(input) < 4 THEN Err
    ELSE Ok(Drop(input, 4),
            input[1] + 256 * input[2] + 65536 * input[3] + 16777216 * input[4])

\* the bits of the 7-bit group of byte b at position pos that a u32 keeps:
\* the 5th group is shifted left by 28, which drops its bits above bit 3
U32Group(b, pos) == IF pos = 5 THEN b % 16 ELSE b % 128

\* nom_leb128::leb128_u32: at most 5 bytes, 7 bits each, least significant
\* group first, the result a u32; a 5th byte with the continuation bit is
\* an error.
RECURSIVE Leb128U32From(_, _, _)
Leb128U32From(input, pos, acc) ==
    IF pos > Len(input) THEN Err
    ELSE IF input[pos] < 128
    THEN Ok(Drop(input, pos), acc + U32Group(input[pos], pos) * Pow128(pos - 1))
    ELSE IF pos = 5 THEN Err
    ELSE Leb128U32From(input, pos + 1,
                       acc + U32Group(input[pos], pos) * Pow128(pos - 1))

leb128_u32(input) == Leb128U32From(input, 1, 0)

\* limbs * 128 + g modulo 2^(16 * Len(limbs))
RECURSIVE Mul128Carry(_, _, _)
Mul128Carry(limbs, g, i) ==
    IF i = 1 THEN g
    ELSE (limbs[i - 1] * 128 + Mul128Carry(limbs, g, i - 1)) \div LimbBase

Mul128Add(limbs, g) ==
    [i \in 1..Len(limbs) |-> (limbs[i] * 128 + Mul128Carry(limbs, g, i)) % LimbBase]

\* the 7-bit groups input[1..n] (continuation bits dropped), most significant
\* first, shifted into acc
RECURSIVE FoldGroups(_, _, _)
FoldGroups(input, n, acc) ==
    IF n = 0 THEN acc
    ELSE FoldGroups(input, n - 1, Mul128Add(acc, input[n] % 128))

\* nom_leb128::leb128_i64: at most 10 bytes; the value is sign-extended from
\* bit 6 of the last byte.
RECURSIVE Leb128I64From(_, _)
Leb128I64From(input, pos) ==
    IF pos > Len(input) THEN Err
    ELSE IF input[pos] < 128
    THEN LET neg == (input[pos] % 128) >= 64 /\ pos < 10
         IN  Ok(Drop(input, pos),
                FoldGroups(input, pos, ToLimbs(IF neg THEN -1 ELSE 0, 4)))
    ELSE IF pos = 10 THEN Err
    ELSE Leb128I64From(input, pos + 1)

leb128_i64(input) == Leb128I64From(input, 1)

\* ------------------------------------------------------------------------
\* Types of the binary format (binary/types.rs, binary/section.rs,
\* binary/opcode.rs, binary/instruction.rs)
\* ------------------------------------------------------------------------

\* Opcode (binary/opcode.rs)
OpEnd == 11
OpLocalGet == 32
OpI64Const == 66
OpI32Add == 106
OpI64Add == 124

\* Opcode::from_u8: the opcode of a byte, "None" for an unmapped byte
Opcode_from_u8(byte) ==
    IF byte = OpEnd THEN "End"
    ELSE IF byte = OpLocalGet THEN "LocalGet"
    ELSE IF byte = OpI64Const THEN "I64Const"
    ELSE IF byte = OpI32Add THEN "I32Add"
    ELSE IF byte = OpI64Add THEN "I64Add"
    ELSE "None"

\* Instruction (binary/instruction.rs): <<op>> or <<op, immediate>>
InstEnd == <<"End">>
InstLocalGet(idx) == <<"LocalGet", idx>>
InstI64Const(val) == <<"I64Const", val>>
InstI32Add == <<"I32Add">>
InstI64Add == <<"I64Add">>

\* SectionCode::from_u8: the section codes of the binary format; "None" for
\* any other byte.
SectionCode_from_u8(code) ==
    IF code = 0 THEN "Custom"
    ELSE IF code = 1 THEN "Type"
    ELSE IF code = 2 THEN "Import"
    ELSE IF code = 3 THEN "Function"
    ELSE IF code = 5 THEN "Memory"
    ELSE IF code = 7 THEN "Export"
    ELSE IF code = 10 THEN "Code"
    ELSE IF code = 11 THEN "Data"
    ELSE "None"

\* impl From<u8> for ValueType: 0x7F is I32, 0x7E is I64; "None" stands for
\* the panic on any other byte.  TI32 and TI64 are the two type bytes.
TI32 == 127
TI64 == 126
ValueType_from_u8(byte) ==
    IF byte = TI32 THEN "I32" ELSE IF byte = TI64 THEN "I64" ELSE "None"

\* FuncType { params, results } and FuncType::default()
FuncType(params, results) == [params |-> params, results |-> results]
FuncTypeDefault == FuncType(<<>>, <<>>)

\* Option<T>
None == [some |-> FALSE]
Some(x) == [some |-> TRUE, val |-> x]

\* ------------------------------------------------------------------------
\* Section decoders (binary/module.rs)
\* ------------------------------------------------------------------------

\* String::from_utf8: whether bytes[i..] is well-formed UTF-8
IsCont(bytes, i) == i <= Len(bytes) /\ bytes[i] >= 128 /\ bytes[i] <= 191
InRange(bytes, i, lo, hi) == i <= Len(bytes) /\ bytes[i] >= lo /\ bytes[i] <= hi

RECURSIVE Utf8From(_, _)
Utf8From(bytes, i) ==
    IF i > Len(bytes) THEN TRUE
    ELSE LET b == bytes[i] IN
         IF b <= 127 THEN Utf8From(bytes, i + 1)
         ELSE IF b >= 194 /\ b <= 223
         THEN IsCont(bytes, i + 1) /\ Utf8From(bytes, i + 2)
         ELSE IF b >= 224 /\ b <= 239
         THEN /\ InRange(bytes, i + 1,
                         IF b = 224 THEN 160 ELSE 128,
                         IF b = 237 THEN 159 ELSE 191)
              /\ IsCont(bytes, i + 2)
              /\ Utf8From(bytes, i + 3)
         ELSE IF b >= 240 /\ b <= 244
         THEN /\ InRange(bytes, i + 1,
                         IF b = 240 THEN 144 ELSE 128,
                         IF b = 244 THEN 143 ELSE 191)
              /\ IsCont(bytes, i + 2)
              /\ IsCont(bytes, i + 3)
              /\ Utf8From(bytes, i + 4)
         ELSE FALSE

IsUtf8(bytes) == Utf8From(bytes, 1)

\* the `?` of Rust: a failure is returned as it is, a success goes on
Then(r, F(_)) == IF r.k # "Ok" THEN r ELSE F(r)

\* decode_section_header: one code byte, then the declared size; an
\* unrecognised code panics ("unexpected section code") after both are read.
decode_section_header(input) ==
    Then(le_u8(input), LAMBDA c :
    Then(leb128_u32(c.rest), LAMBDA s :
    IF SectionCode_from_u8(c.val) = "None" THEN Panic
    ELSE Ok(s.rest, <<SectionCode_from_u8(c.val), s.val>>)))

\* many0(decode_value_type): one ValueType per byte until the bytes run out
RECURSIVE ManyValueTypes(_, _)
ManyValueTypes(bytes, acc) ==
    IF Len(bytes) = 0 THEN Ok(<<>>, acc)
    ELSE IF ValueType_from_u8(bytes[1]) = "None" THEN Panic
    ELSE ManyValueTypes(Drop(bytes, 1), Append(acc, ValueType_from_u8(bytes[1])))

\* one entry of the type section: the marker byte, the parameter types,
\* the result types
DecodeFuncType(input) ==
    Then(le_u8(input), LAMBDA m :
    Then(leb128_u32(m.rest), LAMBDA ps :
    Then(take(ps.val, ps.rest), LAMBDA pb :
    Then(ManyValueTypes(pb.val, <<>>), LAMBDA pt :
    Then(leb128_u32(pb.rest), LAMBDA rs :
    Then(take(rs.val, rs.rest), LAMBDA rb :
    Then(ManyValueTypes(rb.val, <<>>), LAMBDA rt :
    Ok(rb.rest, FuncType(pt.val, rt.val)))))))))

RECURSIVE TypeEntries(_, _, _)
TypeEntries(input, count, acc) ==
    IF count = 0 THEN Ok(<<>>, acc)
    ELSE Then(DecodeFuncType(input), LAMBDA e :
         TypeEntries(e.rest, count - 1, Append(acc, e.val)))

decode_type_section(input) ==
    Then(leb128_u32(input), LAMBDA c : TypeEntries(c.rest, c.val, <<>>))

RECURSIVE FunctionEntries(_, _, _)
FunctionEntries(input, count, acc) ==
    IF count = 0 THEN Ok(<<>>, acc)
    ELSE Then(leb128_u32(input), LAMBDA e :
         FunctionEntries(e.rest, count - 1, Append(acc, e.val)))

decode_function_section(input) ==
    Then(leb128_u32(input), LAMBDA c : FunctionEntries(c.rest, c.val, <<>>))

\* the instruction of an opcode and the bytes after it
DecodeOperandMutByteIndex(op, rest) ==
    IF op = "End" THEN Ok(rest, InstEnd)
    ELSE IF op = "LocalGet"
    THEN Then(le_u8(rest), LAMBDA i : Ok(i.rest, InstLocalGet(i.val)))
    ELSE IF op = "I64Const"
    THEN Then(leb128_i64(rest), LAMBDA v : Ok(v.rest, InstI64Const(v.val)))
    ELSE IF op = "I32Add" THEN Ok(rest, InstI32Add)
    ELSE Ok(rest, InstI64Add)

DecodeOperand(op, rest) ==
    IF op = "End" THEN Ok(rest, InstEnd)
    ELSE IF op = "LocalGet"
    THEN Then(leb128_u32(rest), LAMBDA i : Ok(i.rest, InstLocalGet(i.val)))
    ELSE IF op = "I64Const"
    THEN Then(leb128_i64(rest), LAMBDA v : Ok(v.rest, InstI64Const(v.val)))
    ELSE IF op = "I32Add" THEN Ok(rest, InstI32Add)
    ELSE Ok(rest, InstI64Add)

\* decode_instructions: one instruction and the bytes after it; an unmapped
\* opcode byte panics.
decode_instructions(input) ==
    Then(le_u8(input), LAMBDA b :
    IF Opcode_from_u8(b.val) = "None" THEN Panic
    ELSE DecodeOperand(Opcode_from_u8(b.val), b.rest))

\* FunctionLocal { type_count, value_type }
FunctionLocal(type_count, value_type) ==
    [type_count |-> type_count, value_type |-> value_type]

RECURSIVE LocalRuns(_, _, _)
LocalRuns(input, count, acc) ==
    IF count = 0 THEN Ok(input, acc)
    ELSE Then(leb128_u32(input), LAMBDA n :
         Then(le_u8(n.rest), LAMBDA t :
         IF ValueType_from_u8(t.val) = "None" THEN Panic
         ELSE LocalRuns(t.rest, count - 1,
                        Append(acc, FunctionLocal(n.val, ValueType_from_u8(t.val))))))

RECURSIVE Instructions(_, _)
Instructions(remaining, acc) ==
    IF Len(remaining) = 0 THEN Ok(<<>>, acc)
    ELSE Then(decode_instructions(remaining), LAMBDA i :
         Instructions(i.rest, Append(acc, i.val)))

\* decode_function_body: the local runs, then instructions until the body's
\* bytes are exhausted.  Function { locals, code }
decode_function_body(input) ==
    Then(leb128_u32(input), LAMBDA c :
    Then(LocalRuns(c.rest, c.val, <<>>), LAMBDA l :
    Then(Instructions(l.rest, <<>>), LAMBDA i :
    Ok(<<>>, [locals |-> l.val, code |-> i.val]))))

RECURSIVE CodeEntries(_, _, _)
CodeEntries(input, count, acc) ==
    IF count = 0 THEN Ok(<<>>, acc)
    ELSE Then(leb128_u32(input), LAMBDA s :
         Then(take(s.val, s.rest), LAMBDA b :
         Then(decode_function_body(b.val), LAMBDA f :
         CodeEntries(b.rest, count - 1, Append(acc, f.val)))))

decode_code_section(input) ==
    Then(leb128_u32(input), LAMBDA c : CodeEntries(c.rest, c.val, <<>>))

\* Export { name, desc: ExportDesc::Func(idx) }: the name is its UTF-8 bytes
Export(name, idx) == [name |-> name, desc |-> idx]

RECURSIVE ExportEntries(_, _, _)
ExportEntries(input, count, acc) ==
    IF count = 0 THEN Ok(input, acc)
    ELSE Then(leb128_u32(input), LAMBDA n :
         Then(take(n.val, n.rest), LAMBDA nb :
         IF ~IsUtf8(nb.val) THEN Panic ELSE
         Then(le_u8(nb.rest), LAMBDA kind :
         Then(leb128_u32(kind.rest), LAMBDA idx :
         IF kind.val # 0 THEN Panic
         ELSE ExportEntries(idx.rest, count - 1,
                            Append(acc, Export(nb.val, idx.val)))))))

decode_export_section(input) ==
    Then(leb128_u32(input), LAMBDA c : ExportEntries(c.rest, c.val, <<>>))

\* ------------------------------------------------------------------------
\* Module (binary/module.rs)
\* ------------------------------------------------------------------------

Magic == <<0, 97, 115, 109>>
DefaultVersion == 1

\* Module::default()
ModuleDefault ==
    [magic |-> Magic, version |-> DefaultVersion,
     type_section |-> None, function_section |-> None,
     code_section |-> None, export_section |-> None]

\* nom::bytes::complete::tag(b"\0asm")
tag_magic(input) ==
    IF Len(input) >= 4 /\ Take(input, 4) = Magic
    THEN Ok(Drop(input, 4), Magic) ELSE Err

\* Module::decode up to the section loop: the magic tag and the version
DecodePreambleMutDefaultVersion(input) ==
    Then(tag_magic(input), LAMBDA m :
    Then(le_u32(m.rest), LAMBDA v :
    Ok(v.rest, ModuleDefault)))

DecodePreamble(input) ==
    Then(tag_magic(input), LAMBDA m :
    Then(le_u32(m.rest), LAMBDA v :
    Ok(v.rest, [ModuleDefault EXCEPT !.version = v.val])))

\* the arm of a section code in the section loop: the payload's decoder and
\* the field of the module it fills; todo!() for the other codes
DecodePayloadMutDecoderRest(mod, code, contents, rest) ==
    IF code = "Type"
    THEN Then(decode_type_section(contents), LAMBDA s :
         Ok(s.rest, [mod EXCEPT !.type_section = Some(s.val)]))
    ELSE IF code = "Function"
    THEN Then(decode_function_section(contents), LAMBDA s :
         Ok(s.rest, [mod EXCEPT !.function_section = Some(s.val)]))
    ELSE IF code = "Code"
    THEN Then(decode_code_section(contents), LAMBDA s :
         Ok(s.rest, [mod EXCEPT !.code_section = Some(s.val)]))
    ELSE IF code = "Export"
    THEN Then(decode_export_section(contents), LAMBDA s :
         Ok(s.rest, [mod EXCEPT !.export_section = Some(s.val)]))
    ELSE Panic

DecodePayload(mod, code, contents, rest) ==
    IF code = "Type"
    THEN Then(decode_type_section(contents), LAMBDA s :
         Ok(rest, [mod EXCEPT !.type_section = Some(s.val)]))
    ELSE IF code = "Function"
    THEN Then(decode_function_section(contents), LAMBDA s :
         Ok(rest, [mod EXCEPT !.function_section = Some(s.val)]))
    ELSE IF code = "Code"
    THEN Then(decode_code_section(contents), LAMBDA s :
         Ok(rest, [mod EXCEPT !.code_section = Some(s.val)]))
    ELSE IF code = "Export"
    THEN Then(decode_export_section(contents), LAMBDA s :
         Ok(rest, [mod EXCEPT !.export_section = Some(s.val)]))
    ELSE Panic

\* One iteration of the section loop: the header, the payload slice, the
\* payload's decoder; the loop continues from the bytes after the slice.
DecodeSection(mod, bytes) ==
    Then(decode_section_header(bytes), LAMBDA h :
    Then(take(h.val[2], h.rest), LAMBDA c :
    DecodePayload(mod, h.val[1], c.val, c.rest)))

\* the section loop on the bytes that remain; once none remain, decode
\* returns the module with `input`, the bytes after the version
RECURSIVE SectionLoop(_, _, _)
SectionLoop(mod, bytes, input) ==
    IF Len(bytes) = 0 THEN Ok(input, mod)
    ELSE Then(DecodeSection(mod, bytes),
              LAMBDA s : SectionLoop(s.val, s.rest, input))

\* Module::decode: the preamble, then the section loop from the bytes after
\* the version
Module_decode(bytes) ==
    Then(DecodePreamble(bytes), LAMBDA p : SectionLoop(p.val, p.rest, p.rest))

\* Module::new: the decoded module, the rest dropped, or the failure
Module_new(bytes) ==
    Then(Module_decode(bytes), LAMBDA d : [k |-> "Ok", val |-> d.val])

\* ------------------------------------------------------------------------
\* Store (execution/store.rs)
\* ------------------------------------------------------------------------

Min(a, b) == IF a <= b THEN a ELSE b

RECURSIVE Repeat(_, _)
Repeat(x, n) == IF n = 0 THEN <<>> ELSE <<x>> \o Repeat(x, n - 1)

\* the flat local-type list of a body's runs: each run (type_count,
\* value_type) gives type_count copies of value_type, in run order
RECURSIVE FlattenLocalsMutOnePerRun(_)
FlattenLocalsMutOnePerRun(runs) ==
    IF Len(runs) = 0 THEN <<>>
    ELSE <<runs[1].value_type>> \o FlattenLocalsMutOnePerRun(Drop(runs, 1))

RECURSIVE FlattenLocals(_)
FlattenLocals(runs) ==
    IF Len(runs) = 0 THEN <<>>
    ELSE Repeat(runs[1].value_type, runs[1].type_count)
           \o FlattenLocals(Drop(runs, 1))

\* InternalFuncInst { func_type, code: Func { locals, body } }
InternalFuncInst(func_type, locals, body) ==
    [func_type |-> func_type, code |-> [locals |-> locals, body |-> body]]

StoreErr(msg) == [k |-> "Err", msg |-> msg]

\* the loop over code_section.iter().zip(func_type_idxs): the pairs i..n
RECURSIVE ResolveFuncs(_, _, _, _, _)
ResolveFuncs(module, idxs, i, n, funcs) ==
    IF i > n THEN [k |-> "Ok", val |-> funcs]
    ELSE IF ~module.type_section.some THEN StoreErr("not found type_section")
    ELSE IF idxs[i] >= Len(module.type_section.val)
    THEN StoreErr("not found func type in type_section")
    ELSE LET func_body == module.code_section.val[i]
             func_type == module.type_section.val[idxs[i] + 1]
         IN  ResolveFuncs(module, idxs, i + 1, n,
                 Append(funcs, InternalFuncInst(func_type,
                                                FlattenLocals(func_body.locals),
                                                func_body.code)))

\* HashMap::insert: the entry for the name is replaced
MapInsertMutKeepFirst(map, name, inst) ==
    [n \in (DOMAIN map) \cup {name} |-> IF n \in DOMAIN map THEN map[n] ELSE inst]

MapInsert(map, name, inst) ==
    [n \in (DOMAIN map) \cup {name} |-> IF n = name THEN inst ELSE map[n]]

\* exports.insert(name, export_inst) for each export of the section, in order
RECURSIVE InsertExports(_, _, _)
InsertExports(exports, i, map) ==
    IF i > Len(exports) THEN map
    ELSE InsertExports(exports, i + 1,
                       MapInsert(map, exports[i].name,
                                 [name |-> exports[i].name, desc |-> exports[i].desc]))

\* Store::new
Store_new(module) ==
    LET func_type_idxs == IF module.function_section.some
                          THEN module.function_section.val ELSE <<>>
        resolved == IF module.code_section.some
                    THEN ResolveFuncs(module, func_type_idxs, 1,
                                      Min(Len(module.code_section.val),
                                          Len(func_type_idxs)), <<>>)
                    ELSE [k |-> "Ok", val |-> <<>>]
        exports == IF module.export_section.some
                   THEN InsertExports(module.export_section.val, 1, <<>>)
                   ELSE <<>>
    IN  IF resolved.k # "Ok" THEN resolved
        ELSE [k |-> "Ok",
              val |-> [funcs |-> resolved.val, module |-> [exports |-> exports]]]

\* Store::default()
StoreDefault == [funcs |-> <<>>, module |-> [exports |-> <<>>]]

\* ------------------------------------------------------------------------
\* Inputs: byte sequences of the binary format
\* ------------------------------------------------------------------------

RECURSIVE Concat(_)
Concat(seqs) == IF Len(seqs) = 0 THEN <<>> ELSE seqs[1] \o Concat(Drop(seqs, 1))

\* a section: its code, its byte length, its payload
Section(code, payload) == <<code, Len(payload)>> \o payload
\* a vector: its count, then its entries
Vec(entries) == <<Len(entries)>> \o Concat(entries)
EncFuncType(params, results) ==
    <<96, Len(params)>> \o params \o <<Len(results)>> \o results
EncBody(runs, code) ==
    LET body == Vec(runs) \o code IN <<Len(body)>> \o body
EncExport(name, idx) == <<Len(name)>> \o name \o <<0, idx>>

Preamble == Magic \o <<1, 0, 0, 0>>

BEnd == <<OpEnd>>
BLocalGet(i) == <<OpLocalGet, i>>
BI64Const(b) == <<OpI64Const, b>>
BI32Add == <<OpI32Add>>
BI64Add == <<OpI64Add>>

\* export names
NameA == <<97>>
NameB == <<98>>
NameC == <<99>>
NameD == <<100>>
NameStart == <<95, 115, 116, 97, 114, 116>>
NameMissing == <<122>>

\* func_export_start_i64add.wat and its i32 twin: (a, b) -> a + b
WasmAdd ==
    Preamble
    \o Section(1, Vec(<<EncFuncType(<<TI64, TI64>>, <<TI64>>),
                        EncFuncType(<<TI32, TI32>>, <<TI32>>)>>))
    \o Section(3, Vec(<<<<0>>, <<1>>>>))
    \o Section(7, Vec(<<EncExport(NameStart, 0), EncExport(NameB, 1)>>))
    \o Section(10, Vec(<<EncBody(<<>>, BLocalGet(0) \o BLocalGet(1) \o BI64Add \o BEnd),
                         EncBody(<<>>, BLocalGet(0) \o BLocalGet(1) \o BI32Add \o BEnd)>>))

\* i64_const.wat (I64Const(42); End) and func_local.wat (locals 1 x i32,
\* 2 x i64), both () -> (); a third function reads its second local; a
\* fourth, () -> i64, pushes a constant and has no End
WasmConstLocal ==
    Preamble
    \o Section(1, Vec(<<EncFuncType(<<>>, <<>>), EncFuncType(<<TI64>>, <<TI64>>),
                        EncFuncType(<<>>, <<TI64>>)>>))
    \o Section(3, Vec(<<<<0>>, <<0>>, <<1>>, <<2>>>>))
    \o Section(7, Vec(<<EncExport(NameA, 0), EncExport(NameB, 1),
                        EncExport(NameC, 2), EncExport(NameD, 3)>>))
    \o Section(10, Vec(<<EncBody(<<>>, BI64Const(42) \o BEnd),
                         EncBody(<<<<1, TI32>>, <<2, TI64>>>>, BEnd),
                         EncBody(<<<<2, TI64>>>>, BLocalGet(0) \o BLocalGet(2) \o BI64Add \o BEnd),
                         EncBody(<<>>, BI64Const(7))>>))

\* bodies that fail or fall off their end: a read of a missing local, an
\* addition on an empty stack, a body without End, an empty body with a
\* result, an export of a function index outside the function space
WasmFaulty ==
    Preamble
    \o Section(1, Vec(<<EncFuncType(<<>>, <<TI64>>), EncFuncType(<<>>, <<>>)>>))
    \o Section(3, Vec(<<<<0>>, <<1>>, <<0>>, <<0>>>>))
    \o Section(7, Vec(<<EncExport(NameA, 0), EncExport(NameB, 1),
                        EncExport(NameC, 2), EncExport(NameD, 3),
                        EncExport(NameStart, 9)>>))
    \o Section(10, Vec(<<EncBody(<<>>, BLocalGet(5) \o BEnd),
                         EncBody(<<>>, BI64Add \o BEnd),
                         EncBody(<<>>, BI64Const(7)),
                         EncBody(<<>>, <<>>)>>))

\* the same name exported twice; End alone in a function with a result
WasmDupExport ==
    Preamble
    \o Section(1, Vec(<<EncFuncType(<<>>, <<TI64>>)>>))
    \o Section(3, Vec(<<<<0>>, <<0>>>>))
    \o Section(7, Vec(<<EncExport(NameA, 0), EncExport(NameA, 1), EncExport(NameB, 0)>>))
    \o Section(10, Vec(<<EncBody(<<>>, BEnd),
                         EncBody(<<>>, BI64Const(1) \o BI64Const(2) \o BEnd)>>))

\* a function section longer than the code section
WasmShortCode ==
    Preamble
    \o Section(1, Vec(<<EncFuncType(<<>>, <<>>)>>))
    \o Section(3, Vec(<<<<0>>, <<0>>>>))
    \o Section(7, Vec(<<EncExport(NameA, 0), EncExport(NameB, 1)>>))
    \o Section(10, Vec(<<EncBody(<<>>, BI64Const(42) \o BEnd)>>))

\* a function section entry past the code section with no type of its index
WasmShortCodeBadType ==
    Preamble
    \o Section(1, Vec(<<EncFuncType(<<>>, <<>>)>>))
    \o Section(3, Vec(<<<<0>>, <<4>>>>))
    \o Section(7, Vec(<<EncExport(NameA, 0)>>))
    \o Section(10, Vec(<<EncBody(<<>>, BEnd)>>))

\* a function section entry whose type index has no type
WasmBadType ==
    Preamble
    \o Section(1, Vec(<<EncFuncType(<<>>, <<>>)>>))
    \o Section(3, Vec(<<<<0>>, <<1>>>>))
    \o Section(10, Vec(<<EncBody(<<>>, BEnd), EncBody(<<>>, BEnd)>>))

\* functions and code with no type section
WasmNoTypes ==
    Preamble
    \o Section(3, Vec(<<<<0>>>>))
    \o Section(10, Vec(<<EncBody(<<>>, BEnd)>>))

\* a function section with a missing type and no code section
WasmNoCode ==
    Preamble
    \o Section(1, Vec(<<EncFuncType(<<>>, <<>>)>>))
    \o Section(3, Vec(<<<<3>>>>))
    \o Section(7, Vec(<<EncExport(NameA, 0)>>))

\* a code section whose declared length exceeds the bytes that follow
WasmTruncated ==
    Preamble
    \o Section(1, Vec(<<EncFuncType(<<>>, <<>>)>>))
    \o <<10, 9, 1, 2, 0, 11>>

\* ------------------------------------------------------------------------
\* Bounds and input sets
\* ------------------------------------------------------------------------

\* what one Runtime is given over its life: each call costs one unit and
\* one more per argument value
MaxFuel == 4
\* the sections after the preamble of a decoder input
MaxSections == 3
\* the bytes cut from the end of a decoder input
MaxCut == 2

\* the preambles of decoder inputs: version 1, version 2, a wrong magic tag
Preambles ==
    {Preamble, Magic \o <<2, 0, 0, 0>>, <<0, 97, 115, 110, 1, 0, 0, 0>>}

\* the sections of decoder inputs: one well-formed section of each kind; a
\* function section whose declared length covers one byte more than its
\* decoder reads; one whose declared length reaches 3 bytes past its own; a
\* custom section (a code with no arm); two headers with an unknown code
Blobs ==
    {Section(1, Vec(<<EncFuncType(<<TI64, TI64>>, <<TI64>>)>>)),
     Section(3, Vec(<<<<0>>>>)),
     Section(7, Vec(<<EncExport(NameA, 0)>>)),
     Section(10, Vec(<<EncBody(<<<<1, TI32>>>>, BLocalGet(0) \o BI64Const(42) \o BEnd)>>)),
     <<3, 3, 1, 0, 99>>,
     <<3, 5, 1, 0>>,
     Section(0, <<1, 97>>),
     <<99, 0>>,
     <<77, 9, 0>>}

SectionSeqs(n) == UNION {[1..k -> Blobs] : k \in 0..n}
CutEnd(bytes, c) == Take(bytes, IF Len(bytes) >= c THEN Len(bytes) - c ELSE 0)

\* the byte sequences Module::new is given
DecoderInputs ==
    {CutEnd(p \o Concat(ss), c) :
        p \in Preambles, ss \in SectionSeqs(MaxSections), c \in 0..MaxCut}

\* argument values
Pool == {I32(2), I32(3), I32(Int31), I64(2), I64(3), I64(-1)}
ArgLists(n) == UNION {[1..k -> Pool] : k \in 0..n}

\* the byte sequences a Runtime is instantiated from
RuntimeInputs ==
    {WasmAdd, WasmConstLocal, WasmFaulty, WasmDupExport, WasmShortCode,
     WasmShortCodeBadType, WasmBadType, WasmNoTypes, WasmNoCode, WasmTruncated}

\* ------------------------------------------------------------------------
\* State
\* ------------------------------------------------------------------------

VARIABLES
    wasm,        \* the bytes given to Runtime::instantiate
    rt,          \* where the Runtime's caller is: "new", "idle", "execute",
                 \* "exit", "returned"; "failed": instantiate returned an
                 \* error; "aborted": a panic
    store,       \* Runtime.store
    stack,       \* Runtime.stack
    call_stack,  \* Runtime.call_stack
    cur,         \* the call in progress: its name, its arguments, arity (the
                 \* local of invoke_internal), and the depths of the two
                 \* stacks when call was entered
    result,      \* what the last operation returned to its caller
    missed,      \* whether a call has failed on an unknown export name
    exact,       \* whether every call so far passed as many arguments as
                 \* its callee has parameters, to a body with an End
    fuel,        \* what is left of MaxFuel
    iters,       \* the iterations of execute's loop in the call in progress
    input,       \* the bytes given to Module::new
    remaining,   \* Module::decode's cursor: the bytes not yet consumed
    module,      \* Module::decode's module under construction
    dec,         \* where Module::decode is: "start", "sections", "done"
    dresult,     \* what Module::new returned
    walked,      \* the section headers read so far: <<code, size, bytes
                 \* after the header>>
    function,    \* a Function { locals, code } and
    fbytes,      \* the bytes of its body, given to decode_function_body
    fresult      \* what decode_function_body returned

rvars == <<wasm, rt, store, stack, call_stack, cur, result, missed, exact, fuel,
           iters>>
dvars == <<input, remaining, module, dec, dresult, walked>>
bvars == <<function, fbytes, fresult>>
vars == <<wasm, rt, store, stack, call_stack, cur, result, missed, exact, fuel,
          iters,
          input, remaining, module, dec, dresult, walked,
          function, fbytes, fresult>>

NoResult == [k |-> "None"]
NoCall == [name |-> <<>>, args |-> <<>>, arity |-> 0, depth |-> 0, frames |-> 0,
           active |-> FALSE]
RetOk(val) == [k |-> "Ok", val |-> val]
RetErr(msg) == [k |-> "Err", msg |-> msg]
RetPanic == [k |-> "Panic"]

\* ------------------------------------------------------------------------
\* Runtime (execution/runtime.rs)
\* ------------------------------------------------------------------------

\* Frame { pc, sp, insts, arity, locals }
Frame(pc, sp, insts, arity, locals) ==
    [pc |-> pc, sp |-> sp, insts |-> insts, arity |-> arity, locals |-> locals]

ZeroValue(t) == IF t = "I32" THEN I32(0) ELSE I64(0)

\* invoke_internal up to the push of the frame, on the operand stack stk
\* (the arguments already pushed): the top params.len() values are split off
\* as the first locals, one zero value follows per declared local; the frame
\* starts at pc -1 with sp the depth that is left.  "Panic": fewer values on
\* the stack than parameters (the subtraction, or split_off, panics).
EnterFrame(func, stk) ==
    LET n == Len(func.func_type.params) IN
    IF Len(stk) < n THEN [k |-> "Panic"]
    ELSE LET bottom == Len(stk) - n
             locals == Drop(stk, bottom)
                         \o [i \in 1..Len(func.code.locals) |->
                               ZeroValue(func.code.locals[i])]
         IN  [k |-> "Ok",
              stack |-> Take(stk, bottom),
              frame |-> Frame(-1, bottom, func.code.body,
                              Len(func.func_type.results), locals)]

\* stack_unwind: with a result, the top value is kept above sp; "Err": no
\* value to pop; "Panic": drain(sp..) with sp beyond the stack's length
stack_unwindMutDropResult(stk, sp, arity) ==
    IF sp > Len(stk) THEN [k |-> "Panic", stack |-> stk]
    ELSE [k |-> "Ok", stack |-> Take(stk, sp)]

stack_unwindMutNoTruncate(stk, sp, arity) ==
    IF arity > 0 /\ Len(stk) = 0
    THEN [k |-> "Err", msg |-> "not found return value"]
    ELSE [k |-> "Ok", stack |-> stk]

stack_unwind(stk, sp, arity) ==
    IF arity > 0
    THEN IF Len(stk) = 0 THEN [k |-> "Err", msg |-> "not found return value"]
         ELSE LET value == stk[Len(stk)]
                  popped == Take(stk, Len(stk) - 1)
              IN  IF sp > Len(popped) THEN [k |-> "Panic", stack |-> popped]
                  ELSE [k |-> "Ok", stack |-> Append(Take(popped, sp), value)]
    ELSE IF sp > Len(stk) THEN [k |-> "Panic", stack |-> stk]
         ELSE [k |-> "Ok", stack |-> Take(stk, sp)]

\* the error of execute as invoke_internal reports it
ExecErr(msg) == RetErr(<<"failed to execute instructions", msg>>)

\* Runtime::instantiate: Module::new, then Store::new
Instantiate ==
    /\ rt = "new"
    /\ LET m == Module_new(wasm) IN
       IF m.k # "Ok"
       THEN /\ rt' = (IF m.k = "Panic" THEN "aborted" ELSE "failed")
            /\ result' = (IF m.k = "Panic" THEN RetPanic
                          ELSE RetErr("failed to parse wasm"))
            /\ UNCHANGED store
       ELSE LET s == Store_new(m.val) IN
            IF s.k # "Ok"
            THEN /\ rt' = "failed"
                 /\ result' = RetErr(s.msg)
                 /\ UNCHANGED store
            ELSE /\ rt' = "idle"
                 /\ result' = RetOk(None)
                 /\ store' = s.val
    /\ UNCHANGED <<wasm, stack, call_stack, cur, missed, exact, fuel, iters, dvars, bvars>>

\* the names a caller passes: the exported ones and one that is not
CallNames == (DOMAIN store.module.exports) \cup {NameMissing}

\* the call as the caller sees it while it runs and once it has returned
CallOf(name, args, arity) ==
    [name |-> name, args |-> args, arity |-> arity,
     depth |-> Len(stack), frames |-> Len(call_stack), active |-> TRUE]

\* the early returns of call (`?` on the export lookup, bail! on the
\* function lookup): the error goes to the caller, nothing else is touched
ReturnErrMutCleanup(name, args, msg) ==
    /\ result' = RetErr(msg)
    /\ rt' = "returned"
    /\ cur' = CallOf(name, args, 0)
    /\ stack' = <<>>
    /\ call_stack' = <<>>

ReturnErr(name, args, msg) ==
    /\ result' = RetErr(msg)
    /\ rt' = "returned"
    /\ cur' = CallOf(name, args, 0)
    /\ UNCHANGED <<stack, call_stack>>

\* the call passes as many arguments as func declares parameters, and the
\* body of func has an End
ExactCall(func, args) ==
    /\ Len(args) = Len(func.func_type.params)
    /\ \E i \in 1..Len(func.code.body) : func.code.body[i] = <<"End">>

\* Runtime::call up to the first iteration of execute's loop
Call(name, args) ==
    /\ rt = "idle"
    /\ 1 + Len(args) <= fuel
    /\ fuel' = fuel - (1 + Len(args))
    /\ IF name \notin DOMAIN store.module.exports
       THEN /\ ReturnErr(name, args, "not found export function")
            /\ missed' = TRUE
            /\ UNCHANGED exact
       ELSE LET idx == store.module.exports[name].desc IN
            IF idx >= Len(store.funcs)
            THEN /\ ReturnErr(name, args, "not found func")
                 /\ UNCHANGED <<missed, exact>>
            ELSE LET func == store.funcs[idx + 1]
                     e == EnterFrame(func, stack \o args)
                 IN  /\ cur' = CallOf(name, args, Len(func.func_type.results))
                     /\ UNCHANGED missed
                     /\ exact' = (exact /\ ExactCall(func, args))
                     /\ IF e.k = "Panic"
                        THEN /\ stack' = stack \o args
                             /\ rt' = "aborted"
                             /\ result' = RetPanic
                             /\ UNCHANGED call_stack
                        ELSE /\ stack' = e.stack
                             /\ call_stack' = Append(call_stack, e.frame)
                             /\ rt' = "execute"
                             /\ result' = NoResult
    /\ iters' = 0
    /\ UNCHANGED <<wasm, store, dvars, bvars>>

\* execute's loop: the top frame, its advanced program counter and the
\* instruction fetched there
HasFrame == Len(call_stack) > 0
TopFrame == call_stack[Len(call_stack)]
NextPc == TopFrame.pc + 1
Fetched == NextPc < Len(TopFrame.insts)
Inst == TopFrame.insts[NextPc + 1]
AdvancedMutKeepPc == call_stack
Advanced == [call_stack EXCEPT ![Len(call_stack)].pc = NextPc]

Fetches(op) == rt = "execute" /\ HasFrame /\ Fetched /\ Inst[1] = op

\* an error of execute: cleanup, then the error goes to the caller
FailMutNoCleanup(msg) ==
    /\ UNCHANGED <<stack, call_stack>>
    /\ result' = ExecErr(msg)
    /\ rt' = "returned"

Fail(msg) ==
    /\ stack' = <<>>
    /\ call_stack' = <<>>
    /\ result' = ExecErr(msg)
    /\ rt' = "returned"

\* the loop ends: no frame, or no instruction at the advanced pc
StepBreak ==
    /\ rt = "execute"
    /\ IF HasFrame THEN ~Fetched /\ call_stack' = Advanced
       ELSE UNCHANGED call_stack
    /\ rt' = "exit"
    /\ iters' = iters + 1
    /\ UNCHANGED <<wasm, store, stack, cur, result, missed, exact, fuel, dvars, bvars>>

\* Instruction::End
StepEnd ==
    /\ Fetches("End")
    /\ LET u == stack_unwind(stack, TopFrame.sp, TopFrame.arity) IN
       IF u.k = "Err" THEN Fail(u.msg)
       ELSE IF u.k = "Panic"
       THEN /\ stack' = u.stack
            /\ call_stack' = Take(call_stack, Len(call_stack) - 1)
            /\ result' = RetPanic
            /\ rt' = "aborted"
       ELSE /\ stack' = u.stack
            /\ call_stack' = Take(call_stack, Len(call_stack) - 1)
            /\ UNCHANGED <<result, rt>>
    /\ iters' = iters + 1
    /\ UNCHANGED <<wasm, store, cur, missed, exact, fuel, dvars, bvars>>

\* Instruction::LocalGet(idx)
StepLocalGetMutMoveLocal ==
    /\ Fetches("LocalGet")
    /\ IF Inst[2] >= Len(TopFrame.locals) THEN Fail("not found local")
       ELSE /\ stack' = Append(stack, TopFrame.locals[Inst[2] + 1])
            /\ call_stack' = [Advanced EXCEPT ![Len(call_stack)].locals =
                                 SubSeq(TopFrame.locals, 1, Inst[2])]
            /\ UNCHANGED <<result, rt>>
    /\ iters' = iters + 1
    /\ UNCHANGED <<wasm, store, cur, missed, exact, fuel, dvars, bvars>>

StepLocalGet ==
    /\ Fetches("LocalGet")
    /\ IF Inst[2] >= Len(TopFrame.locals) THEN Fail("not found local")
       ELSE /\ stack' = Append(stack, TopFrame.locals[Inst[2] + 1])
            /\ call_stack' = Advanced
            /\ UNCHANGED <<result, rt>>
    /\ iters' = iters + 1
    /\ UNCHANGED <<wasm, store, cur, missed, exact, fuel, dvars, bvars>>

\* Instruction::I64Const(val)
StepI64Const ==
    /\ Fetches("I64Const")
    /\ stack' = Append(stack, [t |-> "I64", v |-> Inst[2]])
    /\ call_stack' = Advanced
    /\ iters' = iters + 1
    /\ UNCHANGED <<wasm, store, cur, result, rt, missed, exact, fuel, dvars, bvars>>

\* the arms of I32Add and I64Add: rhs is popped first, then lhs; their sum
\* is pushed
ExecAdd ==
    IF Len(stack) < 2 THEN Fail("not found any value in the stack")
    ELSE LET rhs == stack[Len(stack)]
             lhs == stack[Len(stack) - 1]
             popped == Take(stack, Len(stack) - 2)
         IN  \E out \in ValueAdd(lhs, rhs) :
               IF out.k = "Panic"
               THEN /\ stack' = popped
                    /\ call_stack' = Advanced
                    /\ result' = RetPanic
                    /\ rt' = "aborted"
               ELSE /\ stack' = Append(popped, out.val)
                    /\ call_stack' = Advanced
                    /\ UNCHANGED <<result, rt>>

\* Instruction::I32Add
StepI32Add ==
    /\ Fetches("I32Add")
    /\ ExecAdd
    /\ iters' = iters + 1
    /\ UNCHANGED <<wasm, store, cur, missed, exact, fuel, dvars, bvars>>

\* Instruction::I64Add
StepI64Add ==
    /\ Fetches("I64Add")
    /\ ExecAdd
    /\ iters' = iters + 1
    /\ UNCHANGED <<wasm, store, cur, missed, exact, fuel, dvars, bvars>>

\* invoke_internal after execute returned Ok: the result is popped
ExitMutKeepTop ==
    /\ rt = "exit"
    /\ IF cur.arity > 0
       THEN IF Len(stack) = 0
            THEN result' = RetErr("not found return value")
            ELSE result' = RetOk(Some(stack[Len(stack)]))
       ELSE result' = RetOk(None)
    /\ rt' = "returned"
    /\ UNCHANGED <<wasm, store, stack, call_stack, cur, missed, exact, fuel, iters, dvars, bvars>>

Exit ==
    /\ rt = "exit"
    /\ IF cur.arity > 0
       THEN IF Len(stack) = 0
            THEN /\ result' = RetErr("not found return value")
                 /\ UNCHANGED stack
            ELSE /\ result' = RetOk(Some(stack[Len(stack)]))
                 /\ stack' = Take(stack, Len(stack) - 1)
       ELSE /\ result' = RetOk(None)
            /\ UNCHANGED stack
    /\ rt' = "returned"
    /\ UNCHANGED <<wasm, store, call_stack, cur, missed, exact, fuel, iters, dvars, bvars>>

\* the caller has the result of call and may call again
Resume ==
    /\ rt = "returned"
    /\ rt' = "idle"
    /\ cur' = NoCall
    /\ result' = NoResult
    /\ iters' = 0
    /\ UNCHANGED <<wasm, store, stack, call_stack, missed, exact, fuel, dvars, bvars>>

DecodeIdle ==
    /\ input = <<>> /\ remaining = <<>> /\ module = ModuleDefault
    /\ dec = "done" /\ dresult = NoResult /\ walked = <<>>

RuntimeIdle ==
    /\ wasm = <<>> /\ rt = "none" /\ store = StoreDefault /\ stack = <<>>
    /\ call_stack = <<>> /\ cur = NoCall /\ result = NoResult
    /\ missed = FALSE /\ exact = TRUE /\ fuel = 0 /\ iters = 0

BodyIdle ==
    /\ function = [locals |-> <<>>, code |-> <<>>] /\ fbytes = <<>>
    /\ fresult = NoResult

Init ==
    /\ wasm \in RuntimeInputs
    /\ rt = "new"
    /\ store = StoreDefault
    /\ stack = <<>>
    /\ call_stack = <<>>
    /\ cur = NoCall
    /\ result = NoResult
    /\ missed = FALSE
    /\ exact = TRUE
    /\ fuel = MaxFuel
    /\ iters = 0
    /\ DecodeIdle
    /\ BodyIdle

Next ==
    \/ Instantiate
    \/ \E name \in CallNames : \E args \in ArgLists(fuel) : Call(name, args)
    \/ StepBreak
    \/ StepEnd
    \/ StepLocalGet
    \/ StepI64Const
    \/ StepI32Add
    \/ StepI64Add
    \/ Exit
    \/ Resume

Spec == Init /\ [][Next]_vars

\* ------------------------------------------------------------------------
\* Module::new, step by step (binary/module.rs)
\* ------------------------------------------------------------------------

\* Module::decode before its loop: the magic tag and the version
DecodeStart ==
    /\ dec = "start"
    /\ LET p == DecodePreamble(input) IN
       IF p.k # "Ok"
       THEN /\ dec' = "done"
            /\ dresult' = [k |-> p.k]
            /\ UNCHANGED <<module, remaining>>
       ELSE /\ dec' = "sections"
            /\ module' = p.val
            /\ remaining' = p.rest
            /\ UNCHANGED dresult
    /\ UNCHANGED <<input, walked, rvars, bvars>>

\* one iteration of `while !remaining.is_empty()`
DecodeStep ==
    /\ dec = "sections"
    /\ Len(remaining) > 0
    /\ LET h == decode_section_header(remaining)
           s == DecodeSection(module, remaining)
       IN  /\ walked' = IF h.k = "Ok"
                        THEN Append(walked, [code |-> h.val[1], size |-> h.val[2],
                                             header |-> Len(remaining) - Len(h.rest),
                                             before |-> Len(remaining),
                                             after |-> IF s.k = "Ok" THEN Len(s.rest)
                                                       ELSE -1])
                        ELSE walked
           /\ IF s.k # "Ok"
              THEN /\ dec' = "done"
                   /\ dresult' = [k |-> s.k]
                   /\ UNCHANGED <<module, remaining>>
              ELSE /\ module' = s.val
                   /\ remaining' = s.rest
                   /\ UNCHANGED <<dec, dresult>>
    /\ UNCHANGED <<input, rvars, bvars>>

\* the loop ends with no bytes left: Ok(module)
DecodeFinish ==
    /\ dec = "sections"
    /\ Len(remaining) = 0
    /\ dec' = "done"
    /\ dresult' = [k |-> "Ok", val |-> module]
    /\ UNCHANGED <<input, remaining, module, walked, rvars, bvars>>

InitDecode ==
    /\ input \in DecoderInputs
    /\ remaining = input
    /\ module = ModuleDefault
    /\ dec = "start"
    /\ dresult = NoResult
    /\ walked = <<>>
    /\ RuntimeIdle
    /\ BodyIdle

NextDecode ==
    \/ DecodeStart
    \/ DecodeStep
    \/ DecodeFinish

SpecDecode == InitDecode /\ [][NextDecode]_vars

\* ------------------------------------------------------------------------
\* decode_function_body on the encoding of a Function (binary/module.rs)
\* ------------------------------------------------------------------------

MaxInsts == 2

\* unsigned LEB128 of n, as a WebAssembly encoder writes a u32
RECURSIVE EncodeU32(_)
EncodeU32(n) ==
    IF n < 128 THEN <<n>> ELSE <<128 + (n % 128)>> \o EncodeU32(n \div 128)

\* the 64-bit pattern limbs shifted right by 7 bits, the sign kept
ShiftRight7(limbs) ==
    [i \in 1..4 |->
        (limbs[i] \div 128)
          + (IF i < 4 THEN (limbs[i + 1] % 128) * 512
             ELSE IF IsNegative(limbs) THEN 127 * 512 ELSE 0)]

\* signed LEB128 of the i64 with the pattern limbs; groups bounds the
\* recursion (an i64 takes at most 10 groups)
RECURSIVE EncodeI64(_, _)
EncodeI64(limbs, groups) ==
    LET low == limbs[1] % 128
        up == ShiftRight7(limbs)
        last == \/ groups = 1
                \/ up = ToLimbs(0, 4) /\ low < 64
                \/ up = ToLimbs(-1, 4) /\ low >= 64
    IN  IF last THEN <<low>> ELSE <<128 + low>> \o EncodeI64(up, groups - 1)

EncodeInst(inst) ==
    IF inst[1] = "End" THEN <<OpEnd>>
    ELSE IF inst[1] = "LocalGet" THEN <<OpLocalGet>> \o EncodeU32(inst[2])
    ELSE IF inst[1] = "I64Const" THEN <<OpI64Const>> \o EncodeI64(inst[2], 10)
    ELSE IF inst[1] = "I32Add" THEN <<OpI32Add>>
    ELSE <<OpI64Add>>

EncodeRun(run) ==
    EncodeU32(run.type_count)
      \o <<IF run.value_type = "I32" THEN TI32 ELSE TI64>>

\* the body of a Function: its local runs, then its instructions
EncodeFunction(f) ==
    EncodeU32(Len(f.locals))
      \o Concat([i \in 1..Len(f.locals) |-> EncodeRun(f.locals[i])])
      \o Concat([i \in 1..Len(f.code) |-> EncodeInst(f.code[i])])

I64Min == <<0, 0, 0, LimbSign>>
I64Max == <<LimbBase - 1, LimbBase - 1, LimbBase - 1, LimbSign - 1>>

\* the instructions the bodies are made of
InstPool ==
    {InstEnd, InstI32Add, InstI64Add}
      \cup {InstLocalGet(i) : i \in {0, 1, 128, Int31}}
      \cup {InstI64Const(v) : v \in {ToLimbs(42, 4), ToLimbs(-1, 4), ToLimbs(64, 4),
                                     ToLimbs(-65, 4), I64Min, I64Max}}

InstSeqs(n) == UNION {[1..k -> InstPool] : k \in 0..n}

FixtureAdd == <<InstLocalGet(0), InstLocalGet(1), InstI32Add, InstEnd>>
FixtureI64Add == <<InstLocalGet(0), InstLocalGet(1), InstI64Add, InstEnd>>
FixtureConst == <<InstI64Const(ToLimbs(42, 4)), InstEnd>>

RunLists ==
    {<<>>, <<FunctionLocal(1, "I32")>>,
     <<FunctionLocal(1, "I32"), FunctionLocal(2, "I64")>>,
     <<FunctionLocal(300, "I64")>>}

BodyInputs ==
    {[locals |-> l, code |-> c] :
        l \in RunLists,
        c \in InstSeqs(MaxInsts) \cup {FixtureAdd, FixtureI64Add, FixtureConst}}

\* decode_function_body on the bytes
DecodeBody ==
    /\ fresult = NoResult
    /\ fresult' = decode_function_body(fbytes)
    /\ UNCHANGED <<function, fbytes, rvars, dvars>>

InitBody ==
    /\ function \in BodyInputs
    /\ fbytes = EncodeFunction(function)
    /\ fresult = NoResult
    /\ RuntimeIdle
    /\ DecodeIdle

NextBody == DecodeBody

SpecBody == InitBody /\ [][NextBody]_vars

\* ------------------------------------------------------------------------
\* Properties
\* ------------------------------------------------------------------------

\* the number a limb pattern stands for, for patterns of numbers within
\* 31 bits
IsSmall(limbs) ==
    \/ limbs[2] < LimbSign /\ \A i \in 3..Len(limbs) : limbs[i] = 0
    \/ limbs[2] >= LimbSign /\ \A i \in 3..Len(limbs) : limbs[i] = LimbBase - 1
FromLimbs(limbs) ==
    IF limbs[2] < LimbSign THEN limbs[1] + LimbBase * limbs[2]
    ELSE ((limbs[1] + LimbBase * (limbs[2] - LimbSign)) - Int31) - 1

\* whether a and b stand for numbers within 31 bits whose sum stays within
\* 32 bits: by the numbers' signs and magnitudes
SumFits(a, b) ==
    /\ IsSmall(a)
    /\ IsSmall(b)
    /\ IF IsNegative(a) # IsNegative(b) THEN TRUE
       ELSE IF IsNegative(a) THEN FromLimbs(a) >= (-Int31 - 1) - FromLimbs(b)
       ELSE FromLimbs(a) <= Int31 - FromLimbs(b)

\* the function a name is exported for, in the store and in the decoded
\* module
Exported(name) == name \in DOMAIN store.module.exports
CalleeIdx(name) == store.module.exports[name].desc
Resolves(name) == Exported(name) /\ CalleeIdx(name) < Len(store.funcs)
Callee(name) == store.funcs[CalleeIdx(name) + 1]
DecodedModule == Module_new(wasm).val

BodyAdd(op) == <<InstLocalGet(0), InstLocalGet(1), <<op>>, InstEnd>>

\* a call of an exported (t, t) -> t function with the body LocalGet(0);
\* LocalGet(1); op; End on two values of type t whose sum fits
AddCall(t, op) ==
    /\ cur.active
    /\ Resolves(cur.name)
    /\ Callee(cur.name).func_type = FuncType(<<t, t>>, <<t>>)
    /\ Callee(cur.name).code.body = BodyAdd(op)
    /\ Len(cur.args) = 2
    /\ cur.args[1].t = t /\ cur.args[2].t = t
    /\ SumFits(cur.args[1].v, cur.args[2].v)

SumOfArgs(t) ==
    [t |-> t,
     v |-> ToLimbs(FromLimbs(cur.args[1].v) + FromLimbs(cur.args[2].v),
                   Len(cur.args[1].v))]

\* C1: a call of the exported i64 adder (LocalGet(0); LocalGet(1); I64Add;
\* End) with [I64(a), I64(b)], a + b within 64 bits, does not abort and
\* returns Some(I64(a + b)); [I64(2), I64(3)] returns I64(5).
C1_I64AddReturnsSum ==
    AddCall("I64", "I64Add") =>
        /\ rt # "aborted"
        /\ rt = "returned" => result = RetOk(Some(SumOfArgs("I64")))
        /\ (rt = "returned" /\ cur.args = <<I64(2), I64(3)>>)
              => result = RetOk(Some(I64(5)))

C1_Witness ==
    /\ AddCall("I64", "I64Add")
    /\ rt = "returned"
    /\ cur.args = <<I64(2), I64(3)>>
    /\ result = RetOk(Some(I64(5)))

\* C2: a call of the exported i32 adder (LocalGet(0); LocalGet(1); I32Add;
\* End) with [I32(a), I32(b)], a + b within 32 bits, does not abort and
\* returns Some(I32(a + b)); [I32(2), I32(3)] returns I32(5).
C2_I32AddReturnsSum ==
    AddCall("I32", "I32Add") =>
        /\ rt # "aborted"
        /\ rt = "returned" => result = RetOk(Some(SumOfArgs("I32")))
        /\ (rt = "returned" /\ cur.args = <<I32(2), I32(3)>>)
              => result = RetOk(Some(I32(5)))

C2_Witness ==
    /\ AddCall("I32", "I32Add")
    /\ rt = "returned"
    /\ cur.args = <<I32(2), I32(3)>>
    /\ result = RetOk(Some(I32(5)))

\* C3: a call of a name that is not exported fails with "not found export
\* function" and leaves the Runtime unusable: once such a call has failed,
\* every later call on the Runtime fails too.
C3_MissingExportPoisonsRuntime ==
    rt = "returned" =>
        /\ ~Exported(cur.name) => result = RetErr("not found export function")
        /\ missed => result.k = "Err"

\* What the code does on a name that is not exported (C3): the call fails
\* with "not found export function" through the early return, which leaves
\* the operand stack, the call-frame stack and the store as they were; no
\* reset is made and nothing marks the Runtime unusable.
C3_MissingExportLeavesRuntimeIntact ==
    [][(rt = "idle" /\ rt' # "idle" /\ ~Exported(cur'.name))
          => /\ rt' = "returned"
             /\ result' = RetErr("not found export function")
             /\ stack' = stack
             /\ call_stack' = call_stack
             /\ store' = store]_vars

\* a call returned a value after an earlier call had failed on a missing
\* export, the operand stack holding a value before the failed call
C3_Witness ==
    /\ rt = "returned"
    /\ missed
    /\ Exported(cur.name)
    /\ result.k = "Ok"
    /\ result.val.some
    /\ cur.depth > 0

\* C4: whenever call returns an error, the operand stack and the call-frame
\* stack are both empty.
C4_ErrorLeavesStacksEmpty ==
    (rt = "returned" /\ result.k = "Err") =>
        stack = <<>> /\ call_stack = <<>>

\* the function section is longer than the code section
CodeShorter(m) ==
    /\ m.function_section.some
    /\ Len(m.function_section.val)
         > (IF m.code_section.some THEN Len(m.code_section.val) ELSE 0)

\* a function section entry has an index with no entry in the type section
DanglingTypeIndex(m) ==
    /\ m.function_section.some
    /\ \E i \in 1..Len(m.function_section.val) :
          m.function_section.val[i]
            >= (IF m.type_section.some THEN Len(m.type_section.val) ELSE 0)

\* C5: Store construction fails whenever the code section is shorter than
\* the function section, and whenever a function section entry's type index
\* has no entry in the type section.
C5_StoreRejectsInconsistentSections ==
    (rt # "new" /\ Module_new(wasm).k = "Ok"
       /\ (CodeShorter(DecodedModule) \/ DanglingTypeIndex(DecodedModule)))
      => rt = "failed"

\* the instruction fetched is an addition whose two operands are of
\* different variants
MismatchedAdd ==
    /\ (Fetches("I32Add") \/ Fetches("I64Add"))
    /\ Len(stack) >= 2
    /\ stack[Len(stack)].t # stack[Len(stack) - 1].t

\* C6: an addition of an I32 and an I64 value, in either order, pushes no
\* value: the step aborts (panic), the two operands popped.
C6_MismatchedAddAborts ==
    [][MismatchedAdd
          => /\ rt' = "aborted"
             /\ result' = RetPanic
             /\ stack' = Take(stack, Len(stack) - 2)]_vars

\* the adder called with an I32 and an I64 argument has aborted at its
\* addition
C6_Witness ==
    /\ rt = "aborted"
    /\ HasFrame
    /\ TopFrame.insts = BodyAdd("I64Add")
    /\ TopFrame.pc = 2
    /\ TopFrame.locals[1].t # TopFrame.locals[2].t
    /\ stack = <<>>

\* a call of an exported () -> () function with the body I64Const(v); End
ConstCall ==
    /\ cur.active
    /\ Resolves(cur.name)
    /\ Callee(cur.name).func_type = FuncTypeDefault
    /\ Len(Callee(cur.name).code.body) = 2
    /\ Callee(cur.name).code.body[1][1] = "I64Const"
    /\ Callee(cur.name).code.body[2] = InstEnd

\* C7: a call (with no arguments) of a () -> () function with the body
\* I64Const(v); End returns None, leaves the operand stack at its pre-call
\* depth and leaves the call-frame stack empty.
C7_ConstEndLeavesFramesEmpty ==
    (ConstCall /\ cur.args = <<>> /\ rt = "returned") =>
        /\ result = RetOk(None)
        /\ Len(stack) = cur.depth
        /\ call_stack = <<>>

\* What the call does leave behind (C7): it returns None, the operand stack
\* is at the depth it had when the frame was entered (its pre-call depth
\* plus the arguments passed, none being consumed) and the call-frame stack
\* is at its pre-call depth, which is not 0 when an earlier call ran off the
\* end of a body without End and left its frame.
C7_ConstEndRestoresDepths ==
    (ConstCall /\ rt = "returned") =>
        /\ result = RetOk(None)
        /\ Len(stack) = cur.depth + Len(cur.args)
        /\ Len(call_stack) = cur.frames
        /\ cur.frames = 0 => call_stack = <<>>

\* such a call has returned with both stacks as C7 describes them
C7_Witness ==
    /\ ConstCall
    /\ rt = "returned"
    /\ cur.args = <<>>
    /\ cur.depth > 0
    /\ result = RetOk(None)
    /\ Len(stack) = cur.depth
    /\ call_stack = <<>>

\* the declared local runs of the callee, as decoded
DeclaredRuns(name) == DecodedModule.code_section.val[CalleeIdx(name) + 1].locals

RECURSIVE RunTotal(_)
RunTotal(runs) ==
    IF Len(runs) = 0 THEN 0 ELSE runs[1].type_count + RunTotal(Drop(runs, 1))

\* the type of the j-th declared local: that of the run j falls in
RECURSIVE RunTypeAt(_, _)
RunTypeAt(runs, j) ==
    IF j <= runs[1].type_count THEN runs[1].value_type
    ELSE RunTypeAt(Drop(runs, 1), j - runs[1].type_count)

\* the frame of the call has just been pushed
AtCallEntry ==
    /\ cur.active
    /\ rt = "execute"
    /\ Len(call_stack) = cur.frames + 1
    /\ TopFrame.pc = -1

\* C8: at call entry, a call passing as many arguments as the callee has
\* parameters has the locals: the arguments in order, then one zero value
\* per declared local, each run (count, type) giving count locals of its
\* type in run order; runs [1 x I32, 2 x I64] and no arguments give
\* [I32(0), I64(0), I64(0)].
C8_LocalsAtEntry ==
    (AtCallEntry /\ Len(cur.args) = Len(Callee(cur.name).func_type.params)) =>
        LET runs == DeclaredRuns(cur.name) IN
        /\ Len(TopFrame.locals) = Len(cur.args) + RunTotal(runs)
        /\ \A j \in 1..Len(cur.args) : TopFrame.locals[j] = cur.args[j]
        /\ \A j \in 1..RunTotal(runs) :
              TopFrame.locals[Len(cur.args) + j] = ZeroValue(RunTypeAt(runs, j))
        /\ (runs = <<FunctionLocal(1, "I32"), FunctionLocal(2, "I64")>>
              /\ cur.args = <<>>)
             => TopFrame.locals = <<I32(0), I64(0), I64(0)>>

C8_Witness ==
    /\ AtCallEntry
    /\ cur.args = <<>>
    /\ DeclaredRuns(cur.name) = <<FunctionLocal(1, "I32"), FunctionLocal(2, "I64")>>
    /\ TopFrame.locals = <<I32(0), I64(0), I64(0)>>

\* the input is the magic tag and four more bytes: a module with no section
NoSectionInput == Len(input) = 8 /\ Take(input, 4) = Magic

\* C9 as stated: decoding the magic tag and any 4-byte version with no
\* section yields Module::default().
C9_NoSectionsIsDefault ==
    (dec = "done" /\ NoSectionInput) => dresult = [k |-> "Ok", val |-> ModuleDefault]

\* C9 as amended: decoding the magic tag and a 4-byte version with no
\* section yields a Module with every section absent, the magic "\0asm" and
\* the version read from the input (little-endian); it equals
\* Module::default() exactly when that version is 1.
C9_NoSectionsKeepsVersion ==
    (dec = "done" /\ NoSectionInput) =>
        /\ dresult.k = "Ok"
        /\ dresult.val.magic = Magic
        /\ ~dresult.val.type_section.some
        /\ ~dresult.val.function_section.some
        /\ ~dresult.val.code_section.some
        /\ ~dresult.val.export_section.some
        /\ dresult.val.version
             = input[5] + 256 * (input[6] + 256 * (input[7] + 256 * input[8]))
        /\ (dresult.val = ModuleDefault) <=> (Drop(input, 4) = <<1, 0, 0, 0>>)

C9_Witness ==
    /\ dec = "done"
    /\ NoSectionInput
    /\ dresult.k = "Ok"
    /\ dresult.val.version = 2
    /\ dresult.val # ModuleDefault

\* whether, going from header to header by the declared lengths, some
\* header declares more bytes than follow it
RECURSIVE OverlongFrom(_)
OverlongFrom(bytes) ==
    IF Len(bytes) = 0 THEN FALSE
    ELSE LET size == leb128_u32(Drop(bytes, 1)) IN
         IF size.k # "Ok" THEN FALSE
         ELSE IF size.val > Len(size.rest) THEN TRUE
         ELSE OverlongFrom(Drop(size.rest, size.val))

HasOverlongHeader == Len(input) >= 8 /\ OverlongFrom(Drop(input, 8))

LastWalked == walked[Len(walked)]
LastIsOverlong ==
    /\ Len(walked) > 0
    /\ LastWalked.size > LastWalked.before - LastWalked.header

\* C10: decoding an input in which a section header declares more bytes
\* than remain fails and returns no Module, however many sections were
\* decoded before it; the failure is the reader's error when the header is
\* reached with a section code the decoder knows.
C10_OverlongSectionFails ==
    /\ (dec = "done" /\ HasOverlongHeader)
          => dresult.k \in {"Err", "Panic"} /\ DOMAIN dresult = {"k"}
    /\ (dec = "done" /\ LastIsOverlong) => dresult = [k |-> "Err"]
    /\ ~(dec = "sections" /\ LastIsOverlong)

\* two sections were decoded, the header of a third declared more bytes
\* than remained, and decoding failed
C10_Witness ==
    /\ dec = "done"
    /\ Len(walked) = 3
    /\ LastIsOverlong
    /\ HasOverlongHeader
    /\ dresult = [k |-> "Err"]

\* C11: decode_function_body on the encoding of a Function returns that
\* Function: its instructions in the order of the bytes, each with its
\* immediate, and nothing left over.
C11_BodyDecodesToItsInstructions ==
    fresult # NoResult => fresult = Ok(<<>>, function)

\* the add fixture and the constant fixture have been decoded to their
\* instructions, after two local runs
C11_Witness ==
    /\ function.code \in {FixtureAdd, FixtureConst}
    /\ Len(function.locals) = 2
    /\ fresult.k = "Ok"
    /\ fresult.val.code = function.code

\* the declared result count of the function the call in progress resolved to
ResultCount == Len(Callee(cur.name).func_type.results)

\* C12: when the dispatch loop has ended without an error, the call returns
\* the top of the operand stack, popped, if the callee declares a result,
\* and no value if it declares none; with a declared result and an empty
\* operand stack it fails with "not found return value".
C12_ExitReturnsTopOrNone ==
    [][rt = "exit"
         => /\ rt' = "returned"
            /\ (ResultCount > 0 /\ Len(stack) > 0)
                  => /\ result' = RetOk(Some(stack[Len(stack)]))
                     /\ stack' = Take(stack, Len(stack) - 1)
            /\ (ResultCount > 0 /\ Len(stack) = 0)
                  => /\ result' = RetErr("not found return value")
                     /\ stack' = stack
            /\ ResultCount = 0
                  => /\ result' = RetOk(None)
                     /\ stack' = stack]_vars

\* a call of a function with a result has returned the value that its body
\* left on top of a value an earlier call had left behind
C12_Witness ==
    /\ rt = "returned"
    /\ Resolves(cur.name)
    /\ ResultCount > 0
    /\ cur.args = <<>>
    /\ cur.depth > 0
    /\ result.k = "Ok"
    /\ result.val.some
    /\ Len(stack) = cur.depth

\* the instruction fetched is an addition whose two operands are of the
\* same variant
SameVariantAdd ==
    /\ (Fetches("I32Add") \/ Fetches("I64Add"))
    /\ Len(stack) >= 2
    /\ stack[Len(stack)].t = stack[Len(stack) - 1].t

\* C13: I32Add and I64Add push the sum of their two operands modulo 2^32
\* (I32) or 2^64 (I64); an overflow is not an error.
C13_AddWrapsOnOverflow ==
    [][SameVariantAdd
         => /\ rt' = "execute"
            /\ stack' = Append(Take(stack, Len(stack) - 2),
                               [t |-> stack[Len(stack)].t,
                                v |-> WrappingAdd(stack[Len(stack) - 1].v,
                                                  stack[Len(stack)].v)])]_vars

\* the entries of the decoded export section, in section order
ExportList ==
    LET m == Module_new(wasm) IN
    IF m.k = "Ok" /\ m.val.export_section.some
    THEN m.val.export_section.val ELSE <<>>

\* entry i of the export list el is the last one of its name
IsLastOfName(el, i) ==
    \A j \in (i + 1)..Len(el) : el[j].name # el[i].name

\* an earlier entry of the same name names another function
Overwrites(el, i) ==
    \E j \in 1..(i - 1) : /\ el[j].name = el[i].name
                          /\ el[j].desc # el[i].desc

\* C14: for a name with several entries in the export section the store's
\* export mapping holds the descriptor of the last one, and a call of the
\* name enters the function of that last entry.
C14_LastExportWins ==
    rt \notin {"new", "failed", "aborted"} =>
        LET el == ExportList IN
        \A i \in 1..Len(el) :
            IsLastOfName(el, i) =>
                /\ Exported(el[i].name)
                /\ CalleeIdx(el[i].name) = el[i].desc
                /\ (AtCallEntry /\ cur.name = el[i].name)
                      => TopFrame.insts = store.funcs[el[i].desc + 1].code.body

\* a call of a name exported twice, for two functions, has run the body of
\* the second and returned its value
C14_Witness ==
    /\ rt = "returned"
    /\ result = RetOk(Some(I64(2)))
    /\ LET el == ExportList IN
       \E i \in 1..Len(el) :
          /\ el[i].name = cur.name
          /\ IsLastOfName(el, i)
          /\ Overwrites(el, i)
          /\ el[i].desc = 1

\* the instruction fetched is an addition of one width and its two operands
\* are both of the other width
WrongWidthAdd ==
    /\ Len(stack) >= 2
    /\ \/ /\ Fetches("I32Add")
          /\ stack[Len(stack)].t = "I64" /\ stack[Len(stack) - 1].t = "I64"
       \/ /\ Fetches("I64Add")
          /\ stack[Len(stack)].t = "I32" /\ stack[Len(stack) - 1].t = "I32"

\* C15: I32Add on two I64 operands, and I64Add on two I32 operands, is a
\* fatal abort that pushes no result.
C15_AddChecksOperandWidth ==
    [][WrongWidthAdd
         => /\ rt' = "aborted"
            /\ stack' = Take(stack, Len(stack) - 2)]_vars

\* C16: a frame whose program counter runs past its last instruction is
\* removed as if End had been executed, so that once call has returned no
\* frame of that call is left on the call-frame stack.
C16_ExhaustedFrameIsRemoved ==
    (rt = "returned" /\ cur.active) => Len(call_stack) <= cur.frames

\* the step leaves the operand stack with depth d, its values below the top
\* frame's sp as they were
EndLeaves(d) ==
    /\ Len(stack') = d
    /\ \A i \in 1..TopFrame.sp :
          i <= Len(stack) /\ i <= Len(stack') /\ stack'[i] = stack[i]

\* C17: End pops the top frame and leaves the operand stack with depth sp
\* when the frame's arity is 0, and with depth sp + 1, the value that was on
\* top before End on top, when the arity is greater than 0; the values
\* below sp are unchanged.
C17_EndUnwindsToSp ==
    [][Fetches("End")
         => /\ rt' = "execute"
            /\ call_stack' = Take(call_stack, Len(call_stack) - 1)
            /\ IF TopFrame.arity = 0 THEN EndLeaves(TopFrame.sp)
               ELSE /\ Len(stack) > 0
                    /\ EndLeaves(TopFrame.sp + 1)
                    /\ stack'[TopFrame.sp + 1] = stack[Len(stack)]]_vars

\* the operand stack is deep enough for End: sp values, and one more when
\* the frame has a result
DeepEnoughForEnd ==
    Len(stack) >= TopFrame.sp + (IF TopFrame.arity > 0 THEN 1 ELSE 0)

\* What End does (C17): on a stack deep enough it unwinds as C17 says; on a
\* shallower one it fails with "not found return value" (arity > 0, empty
\* stack) or aborts, in both cases without the depths C17 gives.
C17_EndUnwindsWhenDeepEnough ==
    [][Fetches("End")
         => IF DeepEnoughForEnd
            THEN /\ rt' = "execute"
                 /\ call_stack' = Take(call_stack, Len(call_stack) - 1)
                 /\ IF TopFrame.arity = 0 THEN EndLeaves(TopFrame.sp)
                    ELSE /\ EndLeaves(TopFrame.sp + 1)
                         /\ stack'[TopFrame.sp + 1] = stack[Len(stack)]
            ELSE rt' \in {"returned", "aborted"}]_vars

\* the bytes left after the section of header i: its header and its declared
\* length taken from what was left before it
AfterSection(i) == (walked[i].before - walked[i].header) - walked[i].size

RECURSIVE WalkedBytes(_)
WalkedBytes(n) ==
    IF n = 0 THEN 0
    ELSE walked[n].header + walked[n].size + WalkedBytes(n - 1)

\* C18: in the section loop the cursor is, after each section, exactly the
\* declared length past its header, whatever its payload's decoder
\* consumed: the next header is read there, and the loop ends with a
\* Module exactly when no bytes remain, every byte after the preamble then
\* being a header or within a declared length.
C18_CursorAdvancesByDeclaredLength ==
    /\ \A i \in 1..Len(walked) :
          /\ walked[i].after \in {-1, AfterSection(i)}
          /\ i < Len(walked)
                => /\ walked[i].after = AfterSection(i)
                   /\ walked[i + 1].before = AfterSection(i)
    /\ (dec = "sections" /\ Len(walked) > 0)
          => Len(remaining) = AfterSection(Len(walked))
    /\ (dec = "done" /\ dresult.k = "Ok")
          => /\ Len(remaining) = 0
             /\ WalkedBytes(Len(walked)) = Len(input) - 8

\* a function section of declared length 3 whose decoder reads 2 bytes was
\* followed by another section, read 3 bytes after the first header, and
\* the loop has ended with a Module
C18_Witness ==
    /\ dec = "done"
    /\ dresult.k = "Ok"
    /\ Len(walked) >= 2
    /\ walked[1].code = "Function"
    /\ walked[1].size = 3
    /\ dresult.val.function_section = Some(<<0>>)
    /\ walked[2].before = (walked[1].before - walked[1].header) - 3

\* instruction count + 1, summed over the frames of the call in progress:
\* the frames that were on the call-frame stack when it was entered and its
\* own
RECURSIVE FrameBudget(_)
FrameBudget(n) ==
    IF n = 0 THEN 0
    ELSE (Len(call_stack[n].insts) + 1) + FrameBudget(n - 1)

IterBound ==
    (Len(Callee(cur.name).code.body) + 1)
      + FrameBudget(Min(cur.frames, Len(call_stack)))

\* C19: every call terminates.  Each iteration of the dispatch loop adds one
\* to the top frame's program counter; the loop ends with no frame left,
\* with no instruction at the program counter, or with a fatal error; it
\* makes at most instruction count + 1 iterations per frame, and it is
\* never stuck.
C19_CallTerminates ==
    /\ [][rt = "execute"
            => /\ iters' = iters + 1
               /\ iters' <= IterBound
               /\ (HasFrame /\ Len(call_stack') >= Len(call_stack))
                     => call_stack' = Advanced
               /\ rt' \in {"execute", "exit", "returned", "aborted"}
               /\ rt' = "exit" => (~HasFrame \/ ~Fetched)
               /\ rt' = "returned" => result'.k = "Err"
               /\ rt' = "aborted" => result' = RetPanic]_vars
    /\ [](rt = "execute" => ENABLED <<Next>>_vars)
    /\ [](rt = "exit" => ENABLED <<Exit>>_vars)

\* a call entered above a frame that an earlier call left behind: its own
\* frame ran to its End, and the loop ended one iteration later on the
\* frame below
C19_Witness ==
    /\ rt = "exit"
    /\ cur.frames > 0
    /\ Len(call_stack) = cur.frames
    /\ iters = Len(Callee(cur.name).code.body) + 1
    /\ iters > 2

\* the frames of the call-frame stack with their program counters left out
FramesLessPc(cs) ==
    [i \in 1..Len(cs) |-> [insts |-> cs[i].insts, sp |-> cs[i].sp,
                           arity |-> cs[i].arity, locals |-> cs[i].locals]]

\* C20: the Store is read-only after construction.  No step of any call,
\* successful or failed, the reset on a fatal error included, changes the
\* function space or the export mapping; LocalGet pushes a copy of the local
\* and leaves the locals of the frame, and every frame below, as they were.
C20_StoreIsReadOnly ==
    [][/\ rt # "new" => store' = store
       /\ (Fetches("LocalGet") /\ rt' = "execute")
             => /\ FramesLessPc(call_stack') = FramesLessPc(call_stack)
                /\ Len(stack') = Len(stack) + 1
                /\ stack'[Len(stack')] = TopFrame.locals[Inst[2] + 1]]_vars

\* a call that ended in a fatal error inside the dispatch loop, whose reset
\* emptied both stacks, with the Store still the one built from the binary
C20_Witness ==
    /\ rt = "returned"
    /\ result.k = "Err"
    /\ cur.frames = 0
    /\ iters > 0
    /\ iters <= Len(Callee(cur.name).code.body)
    /\ stack = <<>>
    /\ call_stack = <<>>
    /\ store = Store_new(DecodedModule).val
    /\ Len(store.funcs) > 0
    /\ DOMAIN store.module.exports # {}

\* the instruction fetched is an addition and fewer than two values lie
\* above the top frame's sp
AddPopsBelowSp ==
    /\ (Fetches("I32Add") \/ Fetches("I64Add"))
    /\ Len(stack) >= 2
    /\ Len(stack) < TopFrame.sp + 2

\* End is fetched on a stack too shallow for the top frame's sp and arity
EndBelowSp == Fetches("End") /\ ~DeepEnoughForEnd

\* a call splits off more arguments than the operand stack holds
SplitBeyondStack == rt = "idle" /\ rt' = "aborted"

\* C21: frame boundary safety.  Whatever the number of arguments of a call,
\* no instruction pops a value lying below its frame's sp, End finds the
\* operand stack at least sp deep (sp + 1 when the arity is greater than 0),
\* and the argument split at call entry never asks for more values than the
\* operand stack holds.
C21_FrameBoundarySafety ==
    [][~AddPopsBelowSp /\ ~EndBelowSp /\ ~SplitBeyondStack]_vars

\* C22: quiescence between calls.  From a freshly instantiated Runtime, as
\* long as every call has passed as many arguments as its callee declares
\* parameters and every callee's body has an End, the operand stack and the
\* call-frame stack are both empty whenever a call has returned, with a
\* value, with no value or with an error, and so when the next call starts.
C22_QuietBetweenCalls ==
    (exact /\ rt \in {"idle", "returned"})
        => (stack = <<>> /\ call_stack = <<>>)

\* a call with arguments has returned a value, after an earlier call, all
\* of them with the declared number of arguments
C22_Witness ==
    /\ exact
    /\ rt = "returned"
    /\ Resolves(cur.name)
    /\ ExactCall(Callee(cur.name), cur.args)
    /\ Len(cur.args) > 0
    /\ fuel < MaxFuel - (1 + Len(cur.args))
    /\ result.k = "Ok"
    /\ result.val.some
    /\ stack = <<>>
    /\ call_stack = <<>>

====
